---- MODULE Spec2Model ----
(***************************************************************************)
(* A model of scripts/fetch_nhl_all.py: the HTTP helper jget, the artifact *)
(* writes (dump_json, DataFrame.to_csv) and the run main() sequences:      *)
(* standings, the day-by-day schedule sweep, the per-game loop and the     *)
(* players summary.                                                        *)
(*                                                                         *)
(* JSON values are tagged records [t, v]: None, IntV(n), StrV(n) (the     *)
(* decimal text of n, a non-empty string) and ObjV(n) (a JSON object;     *)
(* ObjV(0) is the empty object {}).                                        *)
(***************************************************************************)
EXTENDS Integers, Sequences, FiniteSets, TLC

VARIABLES
    stage,         \* where main() is: "standings", "sweep", "flush", "games", "players", "done"
                   \* ("unit": jget called on its own; "aborted": an exception left main;
                   \*  "crashed": the process was killed; "harvest", then "sequence" or
                   \*  "mapping": one boxscore harvested on its own, and the shape read)
    step,          \* "call": inside jget; "handle": jget returned, the caller's code runs;
                   \* "write": a file write is in progress; "raised": an exception left jget
    retries,       \* jget's parameter `retries`
    i,             \* jget's loop variable
    log,           \* the responses the attempts of the current jget call received
    slept,         \* the delays time.sleep was called with during the current jget call
    ret,           \* jget's return value
    calls,         \* every jget call that has returned: the request and the value returned
    cur,           \* the sweep's day, 1 .. NumDays + 1
    game_rows,     \* main's list game_rows
    game_pks,      \* main's list game_pks
    gidx,          \* the per-game loop's position in game_pks
    kind,          \* which of the four per-game fetches is next: 1 .. 4
    players_seen,  \* main's dict players_seen: player id -> record
    disk,          \* the file system: path -> content
    wq,            \* the writes the running statement still has to make
    wopen,         \* the file at the head of wq is open for writing
    start_d,       \* the sweep's first day (the last one is NumDays)
    prior          \* what an earlier run of the same date left: how many requests it
                   \* made and the files it ended with

vars == <<stage, step, retries, i, log, slept, ret, calls, cur, game_rows, game_pks,
          gidx, kind, players_seen, disk, wq, wopen, start_d, prior>>

(***************************************************************************)
(* Bounds and program constants                                            *)
(***************************************************************************)
NumDays == 2          \* days in the sweep window
MaxEntries == 2       \* entries of a player listing harvested on its own
MaxRetries == 4       \* largest `retries` jget is called with on its own

RETRIES == 3
\* BACKOFF = 1.5 seconds, counted in half seconds
BACKOFF == 3

(***************************************************************************)
(* JSON values                                                             *)
(***************************************************************************)
None == [t |-> "none", v |-> 0]
IntV(n) == [t |-> "int", v |-> n]
StrV(n) == [t |-> "str", v |-> n]
ObjV(n) == [t |-> "obj", v |-> n]

\* Python truthiness: None, 0, "" and {} are false.  StrV(n) is never the
\* empty string; ObjV(0) is {}.
Truthy(x) ==
    CASE x.t = "none" -> FALSE
      [] x.t = "int"  -> x.v # 0
      [] x.t = "str"  -> TRUE
      [] x.t = "obj"  -> x.v # 0

\* Python's `a or b`
Or(a, b) == IF Truthy(a) THEN a ELSE b


(***************************************************************************)
(* Payloads and HTTP responses                                             *)
(***************************************************************************)
\* What jget hands its caller: a decoded JSON document, or None.
NoneP == [kind |-> "none"]
\* The JSON document {}
EmptyP == [kind |-> "empty"]
\* Python truthiness of jget's return value (`if standings:`, `if landing:` ...)
PTruthy(p) == p.kind \notin {"none", "empty"}

NoBody == [kind |-> "nobody"]
Undecodable == [kind |-> "undecodable"]
\* SESSION.get raised: no response at all
NetError == [status |-> 0, body |-> NoBody]
Http(s) == [status |-> s, body |-> NoBody]
Ok(b) == [status |-> 200, body |-> b]
BadBody == [status |-> 200, body |-> Undecodable]

Failures == {NetError, Http(503), Http(404), BadBody}

(***************************************************************************)
(* jget (lines 63-77)                                                      *)
(***************************************************************************)
\* The exception one attempt raises inside the try block, "none" when it
\* reaches `return r.json()`.
Raises(r) ==
    CASE r.status = 0     -> "ConnectionError"        \* line 67
      [] r.status >= 500  -> "HTTPError"              \* lines 68-69
      [] r.status >= 400  -> "HTTPError"              \* line 70, raise_for_status
      [] r.body = Undecodable -> "JSONDecodeError"    \* line 71
      [] OTHER -> "none"

\* A handler that names only requests.HTTPError
CaughtOnlyHTTPError(e) == e = "HTTPError"

\* `except Exception` (line 72): every exception an attempt raises derives
\* from Exception.
Caught(e) == e \in {"ConnectionError", "HTTPError", "JSONDecodeError"}

\* `for i in range(retries)` has no pass left
LoopDone(k, n) == k >= n

\* line 73: `if i == retries - 1`
LastAttempt(k, n) == k = n - 1

\* the request the call at hand makes: the endpoint, and the day or the game
\* and the kind of payload it asks for
Url ==
    CASE stage = "sweep" -> <<"schedule", cur, 0>>
      [] stage = "games" -> <<"gamecenter", game_pks[gidx], kind>>
      [] OTHER           -> <<stage, 0, 0>>

Return(v) ==
    /\ ret' = v
    /\ step' = "handle"
    /\ calls' = Append(calls, [url |-> Url, ret |-> v])

\* a loop that goes on to its next pass after a successful attempt
KeepsTrying(r) ==
    IF LastAttempt(i, retries)
    THEN Return(r.body) /\ UNCHANGED <<i, slept>>
    ELSE i' = i + 1 /\ UNCHANGED <<ret, calls, step, slept>>

\* line 71: `return r.json()`
ReturnsPayload(r) == Return(r.body) /\ UNCHANGED <<i, slept>>

\* a delay that grows by BACKOFF with each attempt
LinearDelay(k) == BACKOFF * (k + 1)

\* line 76: `sleep * (2 ** i)`
Delay(k) == BACKOFF * 2^k

\* One pass of the for loop: an attempt, and what follows it up to the next
\* attempt or the return.
jget(Resp) ==
    /\ step = "call"
    /\ IF LoopDone(i, retries)
       THEN \* retries <= 0: line 77
            /\ Return(NoneP)
            /\ UNCHANGED <<i, log, slept>>
       ELSE \E r \in Resp :
            LET e == Raises(r) IN
            /\ log' = Append(log, r)
            /\ IF e = "none"
               THEN ReturnsPayload(r)
               ELSE IF ~Caught(e)
               THEN /\ step' = "raised"
                    /\ UNCHANGED <<ret, calls, i, slept>>
               ELSE IF LastAttempt(i, retries)
               THEN /\ Return(NoneP)
                    /\ UNCHANGED <<i, slept>>
               ELSE /\ slept' = Append(slept, Delay(i))
                    /\ i' = i + 1
                    /\ UNCHANGED <<ret, calls, step>>
    /\ UNCHANGED <<stage, retries, cur, game_rows, game_pks, gidx, kind,
                   players_seen, disk, wq, wopen, start_d, prior>>

(***************************************************************************)
(* The file system                                                         *)
(***************************************************************************)
\* the game identifiers the upstream knows
GameIds == {1, 2}

\* The four per-game fetches, in the order of the loop body (lines 164-214)
Kinds == <<"landing", "pbp", "boxscore", "shifts">>

\* A path is <<directory, file, game>>; game is 0 for the run-wide files.
RawPath(file) == <<"raw", file, 0>>
CsvPath(file) == <<"csv", file, 0>>
GamePath(g, k) == <<"raw", Kinds[k], g>>
Paths ==
    {RawPath("standings_now.json")}
    \cup {CsvPath(f) : f \in {"standings.csv", "teams.csv", "schedule.csv", "players.csv"}}
    \cup {GamePath(g, k) : g \in GameIds, k \in 1 .. 4}

Absent == [c |-> "absent"]
\* open(path, "w") has truncated the file and not all of the content is in it
Partial == [c |-> "partial"]
File(data) == [c |-> "file", data |-> data]

(***************************************************************************)
(* Lists, as pandas and the loops use them                                 *)
(***************************************************************************)
RECURSIVE Flatten(_)
Flatten(ss) == IF ss = <<>> THEN <<>> ELSE Head(ss) \o Flatten(Tail(ss))

Rows(entries) == [k \in 1 .. Len(entries) |-> entries[k].row]

\* DataFrame.drop_duplicates(subset=[key]) with the default keep="first":
\* a row is kept when no earlier row has its key.
DropDuplicatesFirst(rows, key) ==
    Rows(SelectSeq([k \in 1 .. Len(rows) |->
                  [row |-> rows[k],
                   dup |-> \E j \in 1 .. k - 1 : rows[j][key] = rows[k][key]]],
              LAMBDA e : ~e.dup))

\* DataFrame.drop_duplicates(subset=[key], keep="last")
DropDuplicatesLast(rows, key) ==
    Rows(SelectSeq([k \in 1 .. Len(rows) |->
                  [row |-> rows[k],
                   dup |-> \E j \in k + 1 .. Len(rows) : rows[j][key] = rows[k][key]]],
              LAMBDA e : ~e.dup))

\* sort_values(key) on integer keys, missing keys (None) last
KeyLess(a, b) ==
    \/ a.t = "int" /\ b.t = "int" /\ a.v < b.v
    \/ a.t = "int" /\ b.t # "int"

RECURSIVE SortValues(_, _)
SortValues(rows, key) ==
    IF rows = <<>> THEN <<>>
    ELSE LET m == CHOOSE k \in 1 .. Len(rows) :
                      /\ \A j \in 1 .. Len(rows) : ~KeyLess(rows[j][key], rows[k][key])
                      /\ \A j \in 1 .. k - 1 : KeyLess(rows[k][key], rows[j][key])
             rest == [k \in 1 .. Len(rows) - 1 |-> IF k < m THEN rows[k] ELSE rows[k + 1]]
         IN <<rows[m]>> \o SortValues(rest, key)

Csv(rows) == [kind |-> "csv", rows |-> rows]

(***************************************************************************)
(* What the upstream answers                                               *)
(***************************************************************************)
\* dict.get on a JSON object: ObjV(n) with n > 0 stands for the object whose
\* "id" is n and whose "abbrev" and "default" are the text of n; {} and a
\* missing object give None.
ObjGet(x, key) ==
    IF x.t = "obj" /\ x.v # 0
    THEN (IF key = "id" THEN IntV(x.v) ELSE StrV(x.v))
    ELSE None

\* standings/now: {"standings": [row, ...]}
TeamRow(n, abbrev) ==
    [teamId |-> IntV(n), teamName |-> StrV(n), teamAbbrev |-> abbrev,
     conferenceName |-> StrV(1), divisionName |-> StrV(1)]
StandingsDoc(rows) == [kind |-> "standings", standings |-> rows]
StandingsBodies ==
    {StandingsDoc(<<TeamRow(2, StrV(2)), TeamRow(1, ObjV(1)), TeamRow(2, StrV(3))>>),
     StandingsDoc(<<>>)}

\* schedule/YYYY-MM-DD: {"gameWeek": [{"games": [game, ...]}, ...]}
Game(id, gameId, gamePk, state) ==
    [id |-> id, gameId |-> gameId, gamePk |-> gamePk,
     startTimeUTC |-> StrV(10), startTime |-> None,
     homeTeam |-> ObjV(1), awayTeam |-> ObjV(2),
     venue |-> ObjV(3), venueName |-> None, gameState |-> state]
\* the same game as the integer under "id", or as a numeric string under "gameId"
GameById(g) == Game(IntV(g), None, None, StrV(1))
GameByText(g) == Game(None, StrV(g), None, StrV(2))
GameNoId == Game(None, None, None, StrV(1))
Week(games) == [games |-> games]
ScheduleDoc(weeks) == [kind |-> "schedule", isList |-> TRUE, gameWeek |-> weeks]
\* a payload whose "gameWeek" is missing or is not a list
ScheduleNoWeek == [kind |-> "schedule", isList |-> FALSE, gameWeek |-> <<>>]
\* a day on which no game is played
ScheduleEmptyDay == ScheduleDoc(<<Week(<<>>)>>)
\* each day lists one game, after an entry that carries no identifier; game 1
\* is also listed in its text form
ScheduleBodies ==
    {ScheduleDoc(<<Week(<<GameNoId, GameById(g)>>), Week(<<>>)>>) : g \in GameIds}
    \cup {ScheduleDoc(<<Week(<<GameByText(1)>>)>>), ScheduleNoWeek, ScheduleEmptyDay}

\* gamecenter/{gamePk}/boxscore: {"teams": {"home": side, "away": side}}
Player(playerId, id, sweaterNumber, height) ==
    [playerId |-> playerId, id |-> id, name |-> None,
     sweaterNumber |-> sweaterNumber, jerseyNumber |-> None,
     position |-> None, shootsCatches |-> None, shoots |-> None, catches |-> None,
     height |-> height, weight |-> None]
\* a player listing: a JSON list of entries, or a JSON object, kept as its
\* items [key, value] in order, whose values are the entries
Listing(shape, items) == [shape |-> shape, items |-> items]
Keyed(key, entry) == [key |-> key, value |-> entry]
NoListing == Listing("none", <<>>)
Side(id, players, skaters) == [id |-> id, players |-> players, skaters |-> skaters]
BoxDoc(home, away) == [kind |-> "boxscore", teams |-> [home |-> home, away |-> away]]
\* player 1 seen with a sweater number only, and with a height only
BoxA == BoxDoc(Side(IntV(1), Listing("list", <<Player(IntV(1), None, IntV(9), None)>>), NoListing),
               Side(IntV(2), NoListing, NoListing))
BoxB == BoxDoc(Side(IntV(1), NoListing, Listing("dict", <<Keyed(StrV(1), Player(None, IntV(1), None, IntV(72)))>>)),
               Side(StrV(2), NoListing, Listing("list", <<Player(None, None, IntV(5), None)>>)))
BoxBodies == {BoxA, BoxB}

\* Payloads of unexpected shape: a JSON array where an object is expected, a
\* game whose homeTeam is a string, a game whose identifier is an object, a
\* player whose name is a string
ListP == [kind |-> "list"]
GameTeamText(g) == [GameById(g) EXCEPT !.homeTeam = StrV(1)]
GameIdObject == Game(ObjV(1), None, None, StrV(1))
ScheduleShapes ==
    {ListP,
     ScheduleDoc(<<Week(<<GameById(1), GameTeamText(2)>>)>>),
     ScheduleDoc(<<Week(<<GameIdObject>>)>>)}
BoxC == BoxDoc(Side(IntV(1), Listing("list", <<Player(IntV(2), None, IntV(4), None),
                                               [Player(IntV(3), None, IntV(6), None)
                                                   EXCEPT !.name = StrV(7)]>>), NoListing),
               Side(IntV(2), Listing("list", <<Player(IntV(4), None, None, None)>>), NoListing))
BoxShapes == {ListP, BoxC}

GameBodies(k) == IF Kinds[k] = "boxscore" THEN BoxBodies ELSE {[kind |-> Kinds[k]]}

(***************************************************************************)
(* Artifact writes                                                         *)
(***************************************************************************)
\* open(path, "w") (line 56; to_csv opens its path the same way): the file
\* exists and is empty from here on, whatever it held.
Truncate(d, path) == [d EXCEPT ![path] = Partial]
\* the content has been written and the file closed (line 57)
Store(d, path, content) == [d EXCEPT ![path] = File(content)]
dump_json(d, obj, path) == Store(Truncate(d, path), path, obj)
\* a CSV write that opens its file with mode "a"
to_csv_append(d, rows, path) ==
    IF d[path].c = "file" THEN Store(d, path, Csv(d[path].data.rows \o rows))
    ELSE Store(d, path, Csv(rows))
to_csv(d, rows, path) == Store(Truncate(d, path), path, Csv(rows))

\* a statement's writes, in program order: <<path, content>> pairs
RECURSIVE ApplyWrites(_, _)
ApplyWrites(d, ws) ==
    IF ws = <<>> THEN d
    ELSE LET path == Head(ws)[1]
             content == Head(ws)[2]
         IN ApplyWrites(IF path[1] = "csv" THEN to_csv(d, content.rows, path)
                        ELSE dump_json(d, content, path),
                        Tail(ws))

(***************************************************************************)
(* main: standings (lines 88-113)                                          *)
(***************************************************************************)
team_row(row) ==
    [teamId |-> row.teamId, name |-> row.teamName, triCode |-> row.teamAbbrev,
     conference |-> row.conferenceName, division |-> row.divisionName]

WritesStandings ==
    IF ~PTruthy(ret) THEN <<>>
    ELSE LET rows == ret.standings
             team_rows == [k \in 1 .. Len(rows) |-> team_row(rows[k])]
         IN <<<<RawPath("standings_now.json"), ret>>>>
            \o (IF rows # <<>> THEN <<<<CsvPath("standings.csv"), Csv(rows)>>>> ELSE <<>>)
            \o (IF team_rows # <<>>
                THEN <<<<CsvPath("teams.csv"),
                         Csv(SortValues(DropDuplicatesFirst(team_rows, "teamId"), "teamId"))>>>>
                ELSE <<>>)

(***************************************************************************)
(* main: the schedule sweep (lines 117-154)                                *)
(***************************************************************************)
\* int(gpk)
IntOf(x) == x.v

\* `gpk in game_pks`: game_pks holds ints, and a str never equals an int
InList(x, pks) == x.t = "int" /\ \E k \in 1 .. Len(pks) : pks[k] = x.v

schedule_row(g, gpk) ==
    [gamePk   |-> IntV(IntOf(gpk)),
     gameDate |-> Or(g.startTimeUTC, g.startTime),
     homeId   |-> ObjGet(g.homeTeam, "id"),
     homeTri  |-> ObjGet(g.homeTeam, "abbrev"),
     awayId   |-> ObjGet(g.awayTeam, "id"),
     awayTri  |-> ObjGet(g.awayTeam, "abbrev"),
     venue    |-> Or(ObjGet(g.venue, "default"), g.venueName),
     gameState |-> g.gameState]

\* int(gpk) raises TypeError on an object
IntRaises(gpk) == gpk.t \notin {"int", "str"}

\* lines 138-142: `(g.get(f, {}) or {}).get(...)` raises AttributeError when
\* the field is a non-empty string or a non-zero number
FieldRaises(g) ==
    \E f \in {"homeTeam", "awayTeam", "venue"} : Truthy(g[f]) /\ g[f].t # "obj"

\* the two for loops over one schedule payload (lines 128-144); raised: an
\* exception left the loops, with game_pks and game_rows as they were then
RECURSIVE Discover(_, _, _)
Discover(games, pks, rows) ==
    IF games = <<>> THEN [pks |-> pks, rows |-> rows, raised |-> FALSE]
    ELSE LET g == Head(games)
             gpk == Or(Or(g.id, g.gameId), g.gamePk)
         IN IF ~Truthy(gpk) THEN Discover(Tail(games), pks, rows)
            ELSE IF IntRaises(gpk) THEN [pks |-> pks, rows |-> rows, raised |-> TRUE]
            ELSE LET pks2 == IF InList(gpk, pks) THEN pks ELSE Append(pks, IntOf(gpk))
                 IN IF FieldRaises(g) THEN [pks |-> pks2, rows |-> rows, raised |-> TRUE]
                    ELSE Discover(Tail(games), pks2, Append(rows, schedule_row(g, gpk)))

\* `if sched and isinstance(sched.get("gameWeek"), list)`; a payload that is
\* a JSON array has no .get
SweepDay(sched, pks, rows) ==
    IF sched.kind = "list" THEN [pks |-> pks, rows |-> rows, raised |-> TRUE]
    ELSE IF PTruthy(sched) /\ sched.isList
    THEN Discover(Flatten([k \in 1 .. Len(sched.gameWeek) |-> sched.gameWeek[k].games]),
                  pks, rows)
    ELSE [pks |-> pks, rows |-> rows, raised |-> FALSE]

WritesFlush ==
    IF game_rows # <<>>
    THEN <<<<CsvPath("schedule.csv"), Csv(DropDuplicatesFirst(game_rows, "gamePk"))>>>>
    ELSE <<>>

(***************************************************************************)
(* main: the per-game loop (lines 159-216)                                 *)
(***************************************************************************)
\* dict.update: every key of upd is set, the other keys of rec stay
DictUpdate(rec, upd) ==
    [k \in DOMAIN rec \cup DOMAIN upd |-> IF k \in DOMAIN upd THEN upd[k] ELSE rec[k]]

\* the dict literal of lines 191-200
player_fields(p, pid, team_id) ==
    [personId      |-> IntV(pid),
     fullName      |-> Or(ObjGet(p.name, "default"), p.name),
     teamId        |-> team_id,
     sweaterNumber |-> Or(p.sweaterNumber, p.jerseyNumber),
     position      |-> Or(ObjGet(p.position, "abbrev"), p.position),
     shootsCatches |-> Or(Or(p.shootsCatches, p.shoots), p.catches),
     height        |-> p.height,
     weight        |-> p.weight]

\* what raises inside harvest for one entry: int() of an object, .get on a
\* name or a position that is a string or a number
EntryRaises(p) ==
    LET pid == Or(p.playerId, p.id) IN
    /\ Truthy(pid)
    /\ \/ pid.t = "obj"
       \/ p.name.t \in {"str", "int"}
       \/ Truthy(p.position) /\ p.position.t # "obj"

\* players_seen is kept as the list of its values, in insertion order
Index(seen, pid) ==
    IF \E k \in 1 .. Len(seen) : seen[k].personId = IntV(pid)
    THEN CHOOSE k \in 1 .. Len(seen) : seen[k].personId = IntV(pid)
    ELSE 0

Put(seen, pid, upd) ==
    LET k == Index(seen, pid) IN
    IF k = 0 THEN Append(seen, DictUpdate(<<>>, upd))
    ELSE [seen EXCEPT ![k] = DictUpdate(seen[k], upd)]

\* the for loop of harvest (lines 185-201) over the entries left
RECURSIVE HarvestLoop(_, _, _)
HarvestLoop(players, team_id, st) ==
    IF players = <<>> \/ st.raised THEN st
    ELSE LET p == Head(players)
             pid == Or(p.playerId, p.id)
         IN IF ~Truthy(pid) THEN HarvestLoop(Tail(players), team_id, st)
            ELSE IF EntryRaises(p) THEN [st EXCEPT !.raised = TRUE]
            ELSE HarvestLoop(Tail(players), team_id,
                             [st EXCEPT !.seen = Put(st.seen, IntOf(pid),
                                                     player_fields(p, IntOf(pid), team_id))])

\* a loop over the dict itself: its keys, which are strings and have no
\* .get, so the first pass raises
harvestIteratesKeys(side, team_id, st) ==
    LET listing == IF side.players.items # <<>> THEN side.players ELSE side.skaters
    IN IF listing.shape = "dict"
       THEN (IF listing.items = <<>> THEN st ELSE [st EXCEPT !.raised = TRUE])
       ELSE HarvestLoop(listing.items, team_id, st)

\* harvest(side, team_id): `players or skaters or []`, a dict read through
\* its values
harvest(side, team_id, st) ==
    LET listing == IF side.players.items # <<>> THEN side.players ELSE side.skaters
        players == IF listing.shape = "dict"
                   THEN [k \in 1 .. Len(listing.items) |-> listing.items[k].value]
                   ELSE listing.items
    IN HarvestLoop(players, team_id, st)

\* lines 203-209: both sides, inside one try
\* a payload that is a JSON array has no .get: line 203 raises, inside the try
HarvestBox(box, seen) ==
    IF box.kind = "list" THEN seen
    ELSE
    LET home_blk == box.teams.home
        away_blk == box.teams.away
        TeamId(blk) == IF blk.id.t = "int" THEN blk.id ELSE None
        st1 == harvest(home_blk, TeamId(home_blk), [seen |-> seen, raised |-> FALSE])
    IN harvest(away_blk, TeamId(away_blk), st1).seen

\* a dump_json that is not under `if landing:`: None is written as null
WritesGameUnconditional == <<<<GamePath(game_pks[gidx], kind), ret>>>>

WritesGame ==
    IF PTruthy(ret) THEN <<<<GamePath(game_pks[gidx], kind), ret>>>> ELSE <<>>

\* lines 219-223
WritesPlayers ==
    IF players_seen # <<>>
    THEN <<<<CsvPath("players.csv"), Csv(DropDuplicatesLast(players_seen, "personId"))>>>>
    ELSE <<>>

(***************************************************************************)
(* main: control                                                           *)
(***************************************************************************)
\* entering jget with the default arguments
StartCall ==
    /\ step' = "call"
    /\ retries' = RETRIES
    /\ i' = 0
    /\ log' = <<>>
    /\ slept' = <<>>
    /\ ret' = NoneP
    /\ calls' = calls

\* a statement that makes no HTTP request is next
StartStage(s) ==
    /\ stage' = s
    /\ step' = "handle"
    /\ UNCHANGED <<retries, i, log, slept, ret, calls>>

\* `while cur < end_d`: a sweep that leaves the last day out
EnterSweepExclusive(day) ==
    IF day < NumDays THEN stage' = "sweep" /\ StartCall ELSE StartStage("flush")

\* `while cur <= end_d` (line 123), with the day cur is about to be
EnterSweep(day) ==
    IF day <= NumDays THEN stage' = "sweep" /\ StartCall ELSE StartStage("flush")

\* a run that gives up when the standings are unavailable
AfterStandingsFatal ==
    /\ IF PTruthy(ret) THEN EnterSweep(cur)
       ELSE stage' = "aborted" /\ UNCHANGED <<step, retries, i, log, slept, ret, calls>>
    /\ UNCHANGED <<cur, game_rows, game_pks, gidx, kind, players_seen>>

AfterStandings ==
    /\ EnterSweep(cur)
    /\ UNCHANGED <<cur, game_rows, game_pks, gidx, kind, players_seen>>

\* a sweep that ends at the first day whose fetch fails
AfterScheduleStopsOnFailure ==
    LET r == SweepDay(ret, game_pks, game_rows) IN
    /\ game_pks' = r.pks
    /\ game_rows' = r.rows
    /\ cur' = cur + 1
    /\ IF ret = NoneP THEN StartStage("flush") ELSE EnterSweep(cur + 1)
    /\ UNCHANGED <<gidx, kind, players_seen>>

\* nothing in main catches what the sweep's loops raise
AfterSchedule ==
    LET r == SweepDay(ret, game_pks, game_rows) IN
    /\ game_pks' = r.pks
    /\ game_rows' = r.rows
    /\ IF r.raised
       THEN /\ stage' = "aborted"
            /\ UNCHANGED <<cur, step, retries, i, log, slept, ret, calls>>
       ELSE /\ cur' = cur + 1
            /\ EnterSweep(cur + 1)
    /\ UNCHANGED <<gidx, kind, players_seen>>

\* `for idx, gpk in enumerate(game_pks, start=1)` (line 160)
AfterFlush ==
    /\ IF game_pks # <<>> THEN stage' = "games" /\ StartCall ELSE StartStage("players")
    /\ UNCHANGED <<cur, game_rows, game_pks, gidx, kind, players_seen>>

\* a loop body that goes to the next game when a fetch fails
AfterGameSkipsRestOnFailure ==
    /\ players_seen' = IF Kinds[kind] = "boxscore" /\ PTruthy(ret)
                       THEN HarvestBox(ret, players_seen)
                       ELSE players_seen
    /\ IF kind < 4 /\ PTruthy(ret)
       THEN kind' = kind + 1 /\ gidx' = gidx /\ stage' = stage /\ StartCall
       ELSE IF gidx < Len(game_pks)
       THEN kind' = 1 /\ gidx' = gidx + 1 /\ stage' = stage /\ StartCall
       ELSE kind' = kind /\ gidx' = gidx /\ StartStage("players")
    /\ UNCHANGED <<cur, game_rows, game_pks>>

AfterGame ==
    /\ players_seen' = IF Kinds[kind] = "boxscore" /\ PTruthy(ret)
                       THEN HarvestBox(ret, players_seen)
                       ELSE players_seen
    /\ IF kind < 4 THEN kind' = kind + 1 /\ gidx' = gidx /\ stage' = stage /\ StartCall
       ELSE IF gidx < Len(game_pks)
       THEN kind' = 1 /\ gidx' = gidx + 1 /\ stage' = stage /\ StartCall
       ELSE kind' = kind /\ gidx' = gidx /\ StartStage("players")
    /\ UNCHANGED <<cur, game_rows, game_pks>>

\* line 225
AfterPlayers ==
    /\ StartStage("done")
    /\ UNCHANGED <<cur, game_rows, game_pks, gidx, kind, players_seen>>

\* a loop body that rewrites players.csv after every fetch
WritesPlayersInLoop ==
    CASE stage = "standings" -> WritesStandings
      [] stage = "sweep"     -> <<>>
      [] stage = "flush"     -> WritesFlush
      [] stage = "games"     -> WritesGame \o WritesPlayers
      [] stage = "players"   -> WritesPlayers

\* what the statement at hand writes, and how main goes on after it
Writes ==
    CASE stage = "standings" -> WritesStandings
      [] stage = "sweep"     -> <<>>
      [] stage = "flush"     -> WritesFlush
      [] stage = "games"     -> WritesGame
      [] stage = "players"   -> WritesPlayers

After ==
    CASE stage = "standings" -> AfterStandings
      [] stage = "sweep"     -> AfterSchedule
      [] stage = "flush"     -> AfterFlush
      [] stage = "games"     -> AfterGame
      [] stage = "players"   -> AfterPlayers

Running == stage \in {"standings", "sweep", "flush", "games", "players"}

(***************************************************************************)
(* main: the actions                                                       *)
(***************************************************************************)
\* the responses the upstream may give to the request at hand; Extra adds
\* documents to those every endpoint may answer with
Bodies ==
    CASE stage = "standings" -> StandingsBodies
      [] stage = "sweep"     -> ScheduleBodies
      [] stage = "games"     -> GameBodies(kind)

RunFailures == {Http(503)}

Fetch(Extra) ==
    /\ stage \in {"standings", "sweep", "games"}
    /\ jget(RunFailures \cup {Ok(b) : b \in Bodies \cup Extra})

\* the caller's code from jget's return to the next request, its writes
\* included
Handle(s) ==
    /\ stage = s
    /\ step = "handle"
    /\ disk' = ApplyWrites(disk, Writes)
    /\ After
    /\ UNCHANGED <<wq, wopen, start_d, prior>>

HandleStandings == Handle("standings")
HandleSchedule == Handle("sweep")
FlushSchedule == Handle("flush")
HandleGame == Handle("games")
WritePlayers == Handle("players")

FetchDoc == Fetch({})

\* no earlier run
NoPrior == [n |-> 0, disk |-> [p \in Paths |-> Absent]]

InitMain ==
    /\ prior = NoPrior
    /\ i = 0
    /\ log = <<>>
    /\ slept = <<>>
    /\ ret = NoneP
    /\ calls = <<>>
    /\ cur = start_d
    /\ game_rows = <<>>
    /\ game_pks = <<>>
    /\ gidx = 1
    /\ kind = 1
    /\ players_seen = <<>>
    /\ disk = [p \in Paths |-> Absent]
    /\ wq = <<>>
    /\ wopen = FALSE

\* lines 81-89: the directories exist, the first request is about to be made
Init ==
    /\ stage = "standings"
    /\ step = "call"
    /\ retries = RETRIES
    /\ start_d = 1
    /\ InitMain

Next ==
    \/ FetchDoc
    \/ HandleStandings
    \/ HandleSchedule
    \/ FlushSchedule
    \/ HandleGame
    \/ WritePlayers

Spec == Init /\ [][Next]_vars

\* main is one sequential process: it always takes its next step, and every
\* request ends (TIMEOUT, line 40) and every sleep returns
FairSpec == Spec /\ WF_vars(Next)

(***************************************************************************)
(* The same run on any day: the window starts at day start_d and ends at    *)
(* day NumDays, and is empty when the run's day is before the start date   *)
(***************************************************************************)
InitWindow ==
    /\ stage = "standings"
    /\ step = "call"
    /\ retries = RETRIES
    /\ start_d \in 1 .. NumDays + 1
    /\ InitMain

SpecWindow == InitWindow /\ [][Next]_vars

(***************************************************************************)
(* The same run against an upstream that may also answer 200 with the      *)
(* empty document {}                                                       *)
(***************************************************************************)
FetchAny == Fetch({EmptyP})

NextEmpty ==
    \/ FetchAny
    \/ HandleStandings
    \/ HandleSchedule
    \/ FlushSchedule
    \/ HandleGame
    \/ WritePlayers

SpecEmpty == Init /\ [][NextEmpty]_vars

(***************************************************************************)
(* The same run against an upstream whose schedule and boxscore documents   *)
(* may have an unexpected shape                                            *)
(***************************************************************************)
ShapeBodies ==
    CASE stage = "sweep" -> ScheduleShapes
      [] stage = "games" /\ Kinds[kind] = "boxscore" -> BoxShapes
      [] OTHER -> {}

FetchShape == Fetch(ShapeBodies)

NextShape ==
    \/ FetchShape
    \/ HandleStandings
    \/ HandleSchedule
    \/ FlushSchedule
    \/ HandleGame
    \/ WritePlayers

SpecShape == Init /\ [][NextShape]_vars

(***************************************************************************)
(* Two runs with the same run date, one after the other, the upstream       *)
(* answering the second as it answered the first.  A request of these runs  *)
(* fails on every attempt or succeeds on the first.                        *)
(***************************************************************************)
SecondRun == prior.n > 0

\* the request of the first run that the request at hand repeats
Replayed == calls[Len(calls) + 1 - prior.n]

Answers ==
    IF SecondRun
    THEN (IF Replayed.ret = NoneP THEN {Http(503)} ELSE {Ok(Replayed.ret)})
    ELSE IF log = <<>> THEN RunFailures \cup {Ok(b) : b \in Bodies}
    ELSE {Http(503)}

FetchTwice ==
    /\ stage \in {"standings", "sweep", "games"}
    /\ jget(Answers)

\* the script is started again on the same day: main's locals are new, the
\* files of the first run are there
Rerun ==
    /\ stage = "done" /\ ~SecondRun
    /\ prior' = [n |-> Len(calls), disk |-> disk]
    /\ stage' = "standings"
    /\ StartCall
    /\ cur' = start_d
    /\ game_rows' = <<>>
    /\ game_pks' = <<>>
    /\ gidx' = 1
    /\ kind' = 1
    /\ players_seen' = <<>>
    /\ UNCHANGED <<disk, wq, wopen, start_d>>

NextTwice ==
    \/ FetchTwice
    \/ HandleStandings
    \/ HandleSchedule
    \/ FlushSchedule
    \/ HandleGame
    \/ WritePlayers
    \/ Rerun

SpecTwice == Init /\ [][NextTwice]_vars

(***************************************************************************)
(* The same run at the grain of single file operations, on a file system   *)
(* that may refuse a write and in a process that may be killed             *)
(***************************************************************************)
\* the statement at hand starts: its first file is about to be opened
BeginWrites ==
    /\ Running
    /\ step = "handle"
    /\ IF Writes = <<>>
       THEN After /\ UNCHANGED <<disk, wq, wopen, start_d, prior>>
       ELSE /\ wq' = Writes
            /\ step' = "write"
            /\ UNCHANGED <<stage, retries, i, log, slept, ret, calls, cur, game_rows,
                           game_pks, gidx, kind, players_seen, disk, wopen, start_d, prior>>

\* open(path, "w")
OpenFile ==
    /\ step = "write" /\ Running
    /\ wq # <<>> /\ ~wopen
    /\ disk' = Truncate(disk, Head(wq)[1])
    /\ wopen' = TRUE
    /\ UNCHANGED <<stage, step, retries, i, log, slept, ret, calls, cur, game_rows,
                   game_pks, gidx, kind, players_seen, wq, start_d, prior>>

\* the content is written and the file closed
CloseFile ==
    /\ step = "write" /\ Running
    /\ wq # <<>> /\ wopen
    /\ disk' = Store(disk, Head(wq)[1], Head(wq)[2])
    /\ wq' = Tail(wq)
    /\ wopen' = FALSE
    /\ UNCHANGED <<stage, step, retries, i, log, slept, ret, calls, cur, game_rows,
                   game_pks, gidx, kind, players_seen, start_d, prior>>

\* the statement's writes are made: main goes on
Resume ==
    /\ step = "write" /\ Running
    /\ wq = <<>>
    /\ After
    /\ UNCHANGED <<disk, wq, wopen, start_d, prior>>

\* open() or write() raises OSError; nothing in main catches it
WriteFails ==
    /\ step = "write" /\ Running
    /\ wq # <<>>
    /\ stage' = "aborted"
    /\ UNCHANGED <<step, retries, i, log, slept, ret, calls, cur, game_rows,
                   game_pks, gidx, kind, players_seen, disk, wq, wopen, start_d, prior>>

\* the process is killed
Crash ==
    /\ Running
    /\ stage' = "crashed"
    /\ UNCHANGED <<step, retries, i, log, slept, ret, calls, cur, game_rows,
                   game_pks, gidx, kind, players_seen, disk, wq, wopen, start_d, prior>>

NextIO ==
    \/ FetchDoc
    \/ BeginWrites
    \/ OpenFile
    \/ CloseFile
    \/ Resume
    \/ WriteFails
    \/ Crash

SpecIO == Init /\ [][NextIO]_vars

(***************************************************************************)
(* The player harvest of one boxscore on its own: the home side lists up   *)
(* to MaxEntries players, as a sequence under `playerId` or as a mapping   *)
(* under `id`                                                              *)
(***************************************************************************)
\* entries in the canonical shape: identifier (absent, a number, a numeric
\* string) under playerId, with or without a sweater number and a height
Entries ==
    {Player(pid, None, sw, ht) :
        pid \in {None, IntV(1), IntV(2), StrV(1)}, sw \in {None, IntV(9)}, ht \in {None, IntV(72)}}

EntryLists == UNION {[1 .. n -> Entries] : n \in 0 .. MaxEntries}

BoxOf(listing) == BoxDoc(Side(IntV(1), listing, NoListing), Side(IntV(2), NoListing, NoListing))

\* the same entries as the values of a JSON object, the identifier under `id`
AsMapping(box) ==
    LET items == box.teams.home.players.items IN
    BoxOf(Listing("dict", [k \in 1 .. Len(items) |->
                              Keyed(StrV(k), [items[k] EXCEPT !.id = items[k].playerId,
                                                              !.playerId = None])]))

InitHarvest ==
    /\ stage = "harvest"
    /\ step = "handle"
    /\ retries = RETRIES
    /\ start_d = 1
    /\ prior = NoPrior
    /\ i = 0 /\ log = <<>> /\ slept = <<>> /\ calls = <<>>
    /\ cur = start_d /\ game_rows = <<>> /\ game_pks = <<1>> /\ gidx = 1
    /\ kind = 3
    /\ ret \in {BoxOf(Listing("list", es)) : es \in EntryLists}
    /\ players_seen \in {<<>>, HarvestBox(BoxA, <<>>)}
    /\ disk = [p \in Paths |-> Absent]
    /\ wq = <<>> /\ wopen = FALSE

Harvested(box, shape) ==
    /\ stage = "harvest"
    /\ players_seen' = HarvestBox(box, players_seen)
    /\ stage' = shape
    /\ UNCHANGED <<step, retries, i, log, slept, ret, calls, cur, game_rows, game_pks,
                   gidx, kind, disk, wq, wopen, start_d, prior>>

HarvestSequence == Harvested(ret, "sequence")
HarvestMapping == Harvested(AsMapping(ret), "mapping")

NextHarvest == HarvestSequence \/ HarvestMapping

SpecHarvest == InitHarvest /\ [][NextHarvest]_vars

(***************************************************************************)
(* jget called on its own, with any number of retries                      *)
(***************************************************************************)
InitJget ==
    /\ stage = "unit"
    /\ step = "call"
    /\ retries \in 0 .. MaxRetries
    /\ start_d = 1
    /\ InitMain

JgetUnit ==
    /\ stage = "unit"
    /\ jget(Failures \cup {Ok([kind |-> "landing"]), Ok(EmptyP)})

NextJget == JgetUnit

SpecJget == InitJget /\ [][NextJget]_vars

(***************************************************************************)
(* Reading the state                                                       *)
(***************************************************************************)
GameCalls == SelectSeq(calls, LAMBDA c : c.url[1] = "gamecenter")
DayCalls == SelectSeq(calls, LAMBDA c : c.url[1] = "schedule")

\* jget has returned and the caller's code for that call has not run yet
Pending == stage \in {"standings", "sweep", "games"} /\ step \in {"handle", "write"}

\* the n-th call has been handled
Handled(n) == n < Len(calls) \/ ~Pending

Failed(c) == c.ret = NoneP

\* the attempt got a 200 whose body is a JSON document
Succeeds(r) == r.status = 200 /\ r.body # Undecodable

\* the file a call's payload is kept in (the schedule payloads are kept in none)
PathOf(url) ==
    IF url[1] = "gamecenter" THEN GamePath(url[2], url[3])
    ELSE RawPath("standings_now.json")

\* the n-th call is the latest handled call that fetched its payload
\* successfully
LatestFetched(n) ==
    /\ ~Failed(calls[n])
    /\ Handled(n)
    /\ \A j \in n + 1 .. Len(calls) :
          ~(calls[j].url = calls[n].url /\ ~Failed(calls[j]) /\ Handled(j))

\* every successfully fetched artifact payload is in its file
Persisted(urls) ==
    \A n \in 1 .. Len(calls) :
        calls[n].url \in urls /\ LatestFetched(n)
            => disk[PathOf(calls[n].url)] = File(calls[n].ret)

GameUrls(g) == {<<"gamecenter", g, k>> : k \in 1 .. 4}

Elems(s) == {s[k] : k \in 1 .. Len(s)}

\* the identifiers a schedule payload lists
Listed(sched) ==
    IF sched.kind = "schedule" /\ sched.isList
    THEN LET games == Flatten([k \in 1 .. Len(sched.gameWeek) |-> sched.gameWeek[k].games])
             Ident(g) == Or(Or(g.id, g.gameId), g.gamePk)
         IN {IntOf(Ident(games[k])) : k \in {j \in 1 .. Len(games) : Truthy(Ident(games[j]))}}
    ELSE {}

SweepOver == stage \in {"flush", "games", "players", "done"}

(***************************************************************************)
(* Claims                                                                  *)
(***************************************************************************)

\* C1: a crash during an artifact write leaves no partially written file at
\* a final artifact path.
C1_NoPartialArtifact ==
    stage = "crashed" => \A p \in Paths : disk[p] # Partial

\* C2: a jget call makes at most `retries` attempts and none after a
\* successful one; when the landing endpoint answers 503, 503, 200, jget
\* returns the third attempt's payload after exactly three attempts and the
\* landing artifact of that game is written with it.
C2_BoundedAttempts ==
    /\ [](/\ Len(log) <= retries
          /\ \A k \in 1 .. Len(log) - 1 : ~Succeeds(log[k])
          /\ step = "call" => Len(log) = i)
    /\ [][(/\ stage = "games" /\ Kinds[kind] = "landing" /\ step = "handle"
           /\ Len(log) = 3
           /\ log[1] = Http(503) /\ log[2] = Http(503) /\ Succeeds(log[3]))
          => /\ ret = log[3].body
             /\ disk'[GamePath(game_pks[gidx], kind)] = File(log[3].body)
             /\ Len(log') = 0]_vars

C2_Witness ==
    /\ stage = "games" /\ Kinds[kind] = "landing" /\ step = "handle"
    /\ log = <<Http(503), Http(503), Ok([kind |-> "landing"])>>
    /\ ret = [kind |-> "landing"]

\* C3: when every attempt of a jget call fails, jget returns None and no
\* exception leaves it, for every value of retries (0 and 1 included).
C3_NeverRaises ==
    /\ step # "raised"
    /\ (step = "handle" /\ \A k \in 1 .. Len(log) : ~Succeeds(log[k]))
           => ret = NoneP /\ Len(log) = retries

C3_Witness ==
    /\ step = "handle" /\ retries = 1 /\ ret = NoneP
    /\ log \in {<<NetError>>, <<Http(404)>>, <<BadBody>>}

\* C4: whichever days' schedule fetches fail, the sweep fetches every day of
\* the window, every game a fetched day lists is in game_pks, and at the end
\* of the run each such game has been harvested and its fetched payloads
\* are in their files.
C4_DayFailureIsolated ==
    SweepOver =>
        /\ Len(DayCalls) = NumDays
        /\ \A d \in 1 .. NumDays :
              /\ DayCalls[d].url = <<"schedule", d, 0>>
              /\ \A g \in Listed(DayCalls[d].ret) :
                    /\ g \in Elems(game_pks)
                    /\ stage = "done" =>
                          /\ \A k \in 1 .. 4 :
                                \E n \in 1 .. Len(calls) : calls[n].url = <<"gamecenter", g, k>>
                          /\ Persisted(GameUrls(g))

C4_Witness ==
    /\ stage = "done"
    /\ Cardinality({d \in 1 .. Len(DayCalls) : Failed(DayCalls[d])}) = 1
    /\ \E d \in 1 .. Len(DayCalls) : Listed(DayCalls[d].ret) # {}
    /\ \A p \in {GamePath(game_pks[1], k) : k \in 1 .. 4} : disk[p] # Absent

\* C5: an identifier listed in more than one schedule payload, as an integer
\* or as a numeric string, has exactly one entry in game_pks after the sweep
\* and exactly one row in schedule.csv.
C5_OneEntryPerGame ==
    SweepOver /\ stage # "flush" =>
        /\ \A a, b \in 1 .. Len(game_pks) : game_pks[a] = game_pks[b] => a = b
        /\ game_pks # <<>> =>
              LET rows == disk[CsvPath("schedule.csv")].data.rows IN
              \A g \in Elems(game_pks) :
                  Cardinality({k \in 1 .. Len(rows) : rows[k].gamePk = IntV(g)}) = 1

\* C6: in the harvest of a game the four kinds are requested in order
\* whichever of them fail, and every kind fetched successfully is in its
\* file.
C6_FetchesIndependent ==
    /\ \A n \in 1 .. Len(GameCalls) :
          GameCalls[n].url = <<"gamecenter", game_pks[((n - 1) \div 4) + 1], ((n - 1) % 4) + 1>>
    /\ stage \in {"players", "done"} => Len(GameCalls) = 4 * Len(game_pks)
    /\ Persisted(UNION {GameUrls(g) : g \in GameIds})

C6_Witness ==
    /\ stage = "done"
    /\ Len(GameCalls) = 4
    /\ Failed(GameCalls[1]) /\ ~Failed(GameCalls[2]) /\ Failed(GameCalls[3]) /\ ~Failed(GameCalls[4])
    /\ disk[GamePath(game_pks[1], 2)] # Absent
    /\ disk[GamePath(game_pks[1], 4)] # Absent

\* the records one boxscore payload yields on its own
Observed(box) == HarvestBox(box, <<>>)
DataFields == {"fullName", "teamId", "sweaterNumber", "position", "shootsCatches",
               "height", "weight"}
BoxCalls == SelectSeq(GameCalls, LAMBDA c : c.url[3] = 3 /\ ~Failed(c))

\* C7: when a player is observed in two boxscores, the first giving a field
\* A and not B and the second giving B and not A, the player's record in
\* players_seen has both values after both merges.
C7_MergeKeepsBoth ==
    (stage = "done" /\ Len(BoxCalls) = 2) =>
        LET first == Observed(BoxCalls[1].ret)
            second == Observed(BoxCalls[2].ret)
        IN \A a \in 1 .. Len(first), b \in 1 .. Len(second) :
              first[a].personId = second[b].personId =>
                  LET rec == players_seen[Index(players_seen, first[a].personId.v)] IN
                  \A A, B \in DataFields :
                      (/\ first[a][A] # None /\ first[a][B] = None
                       /\ second[b][B] # None /\ second[b][A] = None)
                          => rec[A] = first[a][A] /\ rec[B] = second[b][B]

\* C8: whatever fetches fail, the run reaches Done.
C8_ReachesDone == <>(stage = "done")

C8_Witness ==
    /\ stage = "done"
    /\ \E n \in 1 .. Len(calls) : calls[n].url[1] = "standings" /\ Failed(calls[n])
    /\ \E n \in 1 .. Len(calls) : calls[n].url[1] = "schedule" /\ Failed(calls[n])
    /\ \E n \in 1 .. Len(calls) : calls[n].url[1] = "gamecenter" /\ Failed(calls[n])

\* C9: an I/O error while writing an artifact does not end the run.
C9_WriteFailureNotFatal == stage # "aborted"

\* C10: every payload jget returns, the empty document included, is in its
\* artifact file before the next request is made.
C10_PersistedBeforeNextFetch ==
    Persisted({<<"standings", 0, 0>>} \cup UNION {GameUrls(g) : g \in GameIds})

\* the games a schedule payload lists
GamesOf(sched) == Flatten([k \in 1 .. Len(sched.gameWeek) |-> sched.gameWeek[k].games])

\* C11: sweeping a day whose schedule payload lists no games leaves a file
\* holding that payload, adds nothing to game_pks and raises nothing.
C11_EmptyDayArtifact ==
    [][(/\ stage = "sweep" /\ step = "handle"
        /\ ret.kind = "schedule" /\ ret.isList /\ GamesOf(ret) = <<>>)
       => /\ game_pks' = game_pks
          /\ stage' # "aborted"
          /\ \E p \in Paths : disk'[p] = File(ret)]_vars

\* the parts of C11 the code keeps: no identifier added, nothing raised
C11_EmptyDayAddsNothing ==
    [][(/\ stage = "sweep" /\ step = "handle"
        /\ ret.kind = "schedule" /\ ret.isList /\ GamesOf(ret) = <<>>)
       => /\ game_pks' = game_pks /\ game_rows' = game_rows
          /\ stage' # "aborted"]_vars
\* C12: a schedule or boxscore payload of unexpected shape raises nothing
\* past the step that reads it: the run goes on.
C12_ShapeNeverRaises ==
    (step = "handle" /\ ret \in ScheduleShapes \cup BoxShapes)
        => stage \in {"sweep", "games"}

\* the part of C12 the code keeps: a boxscore of unexpected shape is written,
\* its readable entries are recorded and the next request follows
C12_BoxShapeContained ==
    [][(stage = "games" /\ step = "handle" /\ ret \in BoxShapes)
       => /\ stage' \in {"games", "players"}
          /\ disk'[GamePath(game_pks[gidx], kind)] = File(ret)
          /\ ret = BoxC => \E k \in 1 .. Len(players_seen') :
                               players_seen'[k].personId = IntV(2)]_vars
\* C13: the standings request is the first one, no schedule request follows
\* a per-game request, and the tabular summaries (schedule, teams, players)
\* are written only after the last per-game harvest, just before Done.
C13_PhaseOrder ==
    /\ calls # <<>> => calls[1].url[1] = "standings"
    /\ \A a, b \in 1 .. Len(calls) :
          (a < b /\ calls[a].url[1] = "gamecenter") => calls[b].url[1] = "gamecenter"
    /\ Len(GameCalls) > 0 => Len(DayCalls) = NumDays
    /\ \A f \in {"schedule.csv", "teams.csv", "players.csv"} :
          disk[CsvPath(f)] # Absent => stage = "done"

\* C13, amended: the requests are made in phase order (standings, every day
\* of the sweep, then the games) and no phase is returned to; standings.csv
\* and teams.csv are written when the standings are handled, before the
\* first schedule request; schedule.csv is written after the sweep's last
\* day and before the first per-game request; players.csv is written after
\* the last per-game harvest, just before Done.
C13_PhasesAsCoded ==
    /\ [](/\ calls # <<>> => calls[1].url[1] = "standings"
          /\ \A a, b \in 1 .. Len(calls) :
                (a < b /\ calls[a].url[1] = "gamecenter") => calls[b].url[1] = "gamecenter"
          /\ Len(GameCalls) > 0 => Len(DayCalls) = NumDays
          /\ disk[CsvPath("teams.csv")] # Absent => DayCalls = <<>> \/ stage # "standings"
          /\ disk[CsvPath("schedule.csv")] # Absent => SweepOver /\ stage # "flush"
          /\ disk[CsvPath("players.csv")] # Absent => stage = "done")
    /\ [][/\ \A f \in {"standings.csv", "teams.csv"} :
               disk'[CsvPath(f)] # disk[CsvPath(f)] => stage = "standings" /\ DayCalls = <<>>
          /\ disk'[CsvPath("schedule.csv")] # disk[CsvPath("schedule.csv")]
                 => stage = "flush" /\ Len(DayCalls) = NumDays /\ GameCalls = <<>>
          /\ disk'[CsvPath("players.csv")] # disk[CsvPath("players.csv")]
                 => stage = "players" /\ stage' = "done"
                    /\ Len(GameCalls) = 4 * Len(game_pks)]_vars

C13_Witness ==
    /\ stage = "games" /\ Len(GameCalls) = 1
    /\ disk[CsvPath("teams.csv")] # Absent
    /\ disk[CsvPath("schedule.csv")] # Absent
    /\ disk[CsvPath("players.csv")] = Absent
\* C14: after a second run with the same run date, the upstream answering
\* as it did the first time, every artifact path holds what it held after
\* the first run, and no other path holds anything.
C14_SecondRunSameArtifacts ==
    (stage = "done" /\ SecondRun) => disk = prior.disk

C14_Witness ==
    /\ stage = "done" /\ SecondRun
    /\ Len(game_pks) = 2
    /\ disk[CsvPath("players.csv")] # Absent
    /\ disk[CsvPath("schedule.csv")] # Absent
    /\ \E n \in 1 .. Len(calls) : Failed(calls[n])
\* C15: a player listing given as a mapping with the identifier under `id`
\* yields the players_seen records that the same entries yield as a
\* sequence with the identifier under `playerId`.
C15_MappingAsSequence ==
    [][stage = "harvest" =>
          /\ stage' = "mapping" => players_seen' = HarvestBox(ret, players_seen)
          /\ stage' = "sequence" => players_seen' = HarvestBox(AsMapping(ret), players_seen)]_vars

C15_Witness ==
    /\ stage = "mapping"
    /\ Len(ret.teams.home.players.items) = 2
    /\ Len(players_seen) = 2
    /\ \E k \in 1 .. 2 : players_seen[k].personId = IntV(2) /\ players_seen[k].height = IntV(72)
\* C16: a fetch that fails changes no file, whether written earlier in the
\* run or by a previous run, and leaves game_pks, game_rows and players_seen
\* as they were: neither jget's attempts nor the caller's handling of the
\* None it returns touch them.
C16_FailedFetchChangesNothing ==
    [][(\/ step = "call"
        \/ stage \in {"standings", "sweep", "games"} /\ step = "handle" /\ ret = NoneP)
       => /\ disk' = disk
          /\ game_pks' = game_pks
          /\ game_rows' = game_rows
          /\ players_seen' = players_seen]_vars

C16_Witness ==
    /\ SecondRun
    /\ stage = "games" /\ step = "handle" /\ ret = NoneP
    /\ Len(log) = RETRIES
    /\ disk[GamePath(game_pks[gidx], kind)] # Absent
    /\ players_seen # <<>>
\* C17: inside a jget call every failed attempt but the last allowed one is
\* followed by a delay of BACKOFF * 2^i and by another attempt, whatever
\* the failure; the last allowed attempt is followed by neither.
C17_BackoffBetweenAttempts ==
    /\ \A k \in 1 .. Len(slept) : slept[k] = BACKOFF * 2^(k - 1)
    /\ step = "call" =>
          /\ Len(slept) = Len(log)
          /\ \A k \in 1 .. Len(log) : ~Succeeds(log[k])
          /\ log # <<>> => i = Len(log) /\ i < retries
    /\ (step = "handle" /\ log # <<>>) =>
          IF Succeeds(log[Len(log)])
          THEN Len(slept) = Len(log) - 1
          ELSE Len(log) = retries /\ Len(slept) = retries - 1

C17_Witness ==
    /\ step = "handle" /\ retries = 4 /\ ret = NoneP
    /\ log = <<NetError, Http(404), BadBody, Http(503)>>
    /\ slept = <<BACKOFF, 2 * BACKOFF, 4 * BACKOFF>>
\* the last row appended to game_rows for game g
LastRowOf(g) ==
    game_rows[CHOOSE k \in 1 .. Len(game_rows) :
                  /\ game_rows[k].gamePk = IntV(g)
                  /\ \A j \in k + 1 .. Len(game_rows) : game_rows[j].gamePk # IntV(g)]

\* C18: when several rows were appended for a game during the sweep, its
\* one row in schedule.csv is the last of them.
C18_FlushKeepsLast ==
    (SweepOver /\ stage # "flush" /\ game_rows # <<>>) =>
        LET rows == disk[CsvPath("schedule.csv")].data.rows IN
        \A k \in 1 .. Len(rows) : rows[k] = LastRowOf(rows[k].gamePk.v)

\* the identifiers of a list in the order of their first occurrence
Distinct(seq) ==
    Rows(SelectSeq([k \in 1 .. Len(seq) |->
                       [row |-> seq[k], dup |-> \E j \in 1 .. k - 1 : seq[j] = seq[k]]],
                   LAMBDA e : ~e.dup))

\* C20: every distinct identifier the sweep discovered is harvested exactly
\* once, in the order of first discovery, by one request per kind in the
\* order landing, play-by-play, boxscore, shifts.
C20_EachGameOnce ==
    stage \in {"players", "done"} =>
        /\ Len(GameCalls) = 4 * Cardinality(Elems(game_pks))
        /\ \A n \in 1 .. Len(GameCalls) :
              GameCalls[n].url = <<"gamecenter", Distinct(game_pks)[((n - 1) \div 4) + 1],
                                   ((n - 1) % 4) + 1>>

\* the harvest the code makes: one per entry of game_pks
C20_EachEntryOnce ==
    stage \in {"players", "done"} =>
        /\ Len(GameCalls) = 4 * Len(game_pks)
        /\ \A n \in 1 .. Len(GameCalls) :
              GameCalls[n].url = <<"gamecenter", game_pks[((n - 1) \div 4) + 1],
                                   ((n - 1) % 4) + 1>>
\* C19: the sweep makes one schedule request for each day from the start
\* date to the end date, in ascending order, skipping and repeating none,
\* whether or not requests fail; with the end date before the start date it
\* makes none.
C19_OneFetchPerDay ==
    /\ \A k \in 1 .. Len(DayCalls) : DayCalls[k].url = <<"schedule", start_d + k - 1, 0>>
    /\ stage = "standings" => DayCalls = <<>>
    /\ stage = "sweep" =>
          Len(DayCalls) = IF step = "call" THEN cur - start_d ELSE cur - start_d + 1
    /\ SweepOver => Len(DayCalls) = NumDays + 1 - start_d

C19_Witness ==
    /\ stage = "done" /\ start_d = 1
    /\ Len(DayCalls) = NumDays
    /\ Failed(DayCalls[1]) /\ ~Failed(DayCalls[NumDays])
====
